---- MODULE Spec2Model ----
(***************************************************************************)
(* Model of gistPipeline/emissionLines/magpiGandalf/bvls_n.py: the Python  *)
(* port of the BVLS bounded-variable least-squares routine.                *)
(*                                                                         *)
(* The routine keeps its whole state in module-level globals.  The model   *)
(* holds that namespace in the variable g, and each BVLS invocation        *)
(* (thread) keeps only its arguments, its position and its return value.   *)
(*                                                                         *)
(* Numbers.  The code computes in IEEE float32.  The model computes with   *)
(* exact rationals <<n, d>> (d > 0, lowest terms), extended by the three   *)
(* IEEE specials numpy produces on a division by zero: <<1,0>> = +inf,     *)
(* <<-1,0>> = -inf and <<0,0>> = NaN (signed zeros are not kept).          *)
(* Rounding of the four operations is not modelled; a square root that is  *)
(* not rational is rounded down to a multiple of 1/SqrtDen.                *)
(***************************************************************************)
EXTENDS Integers, Sequences, FiniteSets, TLC

\* ------------------------------------------------------------ numbers

IAbs(n) == IF n < 0 THEN -n ELSE n

Sgn(n) == IF n < 0 THEN -1 ELSE IF n > 0 THEN 1 ELSE 0

RECURSIVE GCD(_, _)
GCD(a, b) == IF b = 0 THEN a ELSE GCD(b, a % b)

\* the rational n/d in lowest terms with a positive denominator; d = 0
\* yields the IEEE special with the sign of n
Norm(n, d) ==
    IF d = 0 THEN <<Sgn(n), 0>>
    ELSE LET k == GCD(IAbs(n), IAbs(d))
         IN  IF d < 0 THEN <<(-n) \div k, (-d) \div k>> ELSE <<n \div k, d \div k>>

R(n) == <<n, 1>>

NaN == <<0, 0>>

IsNaN(x) == x[1] = 0 /\ x[2] = 0

IsInf(x) == x[1] # 0 /\ x[2] = 0

IsFin(x) == x[2] # 0

RNeg(x) == <<-x[1], x[2]>>

RAbs(x) == <<IAbs(x[1]), x[2]>>

RAdd(x, y) ==
    IF IsNaN(x) \/ IsNaN(y) THEN NaN
    ELSE IF IsInf(x) THEN (IF IsInf(y) /\ y[1] # x[1] THEN NaN ELSE x)
    ELSE IF IsInf(y) THEN y
    ELSE Norm(x[1] * y[2] + y[1] * x[2], x[2] * y[2])

RSub(x, y) == RAdd(x, RNeg(y))

RMul(x, y) ==
    IF IsNaN(x) \/ IsNaN(y) THEN NaN
    ELSE IF IsInf(x) \/ IsInf(y) THEN <<Sgn(x[1]) * Sgn(y[1]), 0>>
    ELSE LET k1 == GCD(IAbs(x[1]), y[2])
             k2 == GCD(IAbs(y[1]), x[2])
         IN  <<(x[1] \div k1) * (y[1] \div k2), (x[2] \div k2) * (y[2] \div k1)>>

RDiv(x, y) ==
    IF IsNaN(x) \/ IsNaN(y) THEN NaN
    ELSE IF IsInf(x) THEN (IF IsInf(y) THEN NaN
                           ELSE <<(IF y[1] < 0 THEN -x[1] ELSE x[1]), 0>>)
    ELSE IF IsInf(y) THEN R(0)
    ELSE IF y[1] = 0 THEN <<Sgn(x[1]), 0>>
    ELSE RMul(x, Norm(y[2], y[1]))

\* IEEE comparison: anything compared with NaN is false
RLt(x, y) ==
    IF IsNaN(x) \/ IsNaN(y) THEN FALSE
    ELSE IF IsInf(x) /\ IsInf(y) THEN x[1] < y[1]
    ELSE IF IsInf(x) THEN x[1] < 0
    ELSE IF IsInf(y) THEN y[1] > 0
    ELSE IF x[1] \div x[2] # y[1] \div y[2] THEN x[1] \div x[2] < y[1] \div y[2]
    ELSE (x[1] % x[2]) * y[2] < (y[1] % y[2]) * x[2]

RGt(x, y) == RLt(y, x)

RLe(x, y) == ~IsNaN(x) /\ ~IsNaN(y) /\ ~RLt(y, x)

RGe(x, y) == RLe(y, x)

RECURSIVE ISqrtR(_, _, _)
ISqrtR(n, lo, hi) ==
    IF lo >= hi THEN lo
    ELSE LET mid == (lo + hi + 1) \div 2
         IN  IF mid * mid <= n THEN ISqrtR(n, mid, hi) ELSE ISqrtR(n, lo, mid - 1)

\* floor of the square root of a natural number
ISqrt(n) == ISqrtR(n, 0, IF n < 46340 THEN n ELSE 46340)

\* precision of an irrational square root
SqrtDen == 16

\* np.sqrt: exact when the root is rational, else rounded down
RSqrt(x) ==
    IF IsNaN(x) \/ x[1] < 0 THEN NaN
    ELSE IF IsInf(x) THEN x
    ELSE LET sn == ISqrt(x[1])
             sd == ISqrt(x[2])
         IN  IF sn * sn = x[1] /\ sd * sd = x[2] THEN <<sn, sd>>
             ELSE Norm(ISqrt(x[1] * x[2] * SqrtDen * SqrtDen), x[2] * SqrtDen)

\* Python's float(bool), as stored by an assignment into a float32 array
RBool(b) == IF b THEN R(1) ELSE R(0)

ZERO == R(0)

ONE == R(1)

TWO == R(2)

\* np.finfo("float32").max, the "no bound" sentinel: a magnitude no value
\* of the model's runs reaches stands for 3.4028235e38
FMAXN == 1000000

FMAX == R(FMAXN)

\* np.finfo("float32").eps = 2^-23
EPSDEN == 8388608

EPSDEFAULT == <<1, EPSDEN>>

\* ------------------------------------------------------------ vectors

RECURSIVE SumSeq(_)
SumSeq(s) == IF Len(s) = 0 THEN ZERO ELSE RAdd(Head(s), SumSeq(Tail(s)))

\* s[lo..hi] (1-based, inclusive); empty when lo > hi
Slice(s, lo, hi) == [k \in 1..(IF hi >= lo THEN hi - lo + 1 ELSE 0) |-> s[lo + k - 1]]

\* column j of A, rows lo..hi
Col(AA, j, lo, hi) == [k \in 1..(IF hi >= lo THEN hi - lo + 1 ELSE 0) |-> AA[lo + k - 1][j]]

\* ------------------------------------------------------------ NRM2

RECURSIVE NRM2Loop(_, _, _, _)
NRM2Loop(X2, IX, SCALE1, SSQ1) ==
    IF IX > Len(X2) THEN RMul(SCALE1, RSqrt(SSQ1))
    ELSE LET ABSXI1 == RAbs(X2[IX])
         IN  IF RGt(ABSXI1, ZERO)
             THEN IF RLt(SCALE1, ABSXI1)
                  THEN LET DD1 == RDiv(SCALE1, ABSXI1)
                       IN  NRM2Loop(X2, IX + 1, ABSXI1, RAdd(ONE, RMul(SSQ1, RMul(DD1, DD1))))
                  ELSE LET DD1 == RDiv(ABSXI1, SCALE1)
                       IN  NRM2Loop(X2, IX + 1, SCALE1, RAdd(SSQ1, RMul(DD1, DD1)))
             ELSE NRM2Loop(X2, IX + 1, SCALE1, SSQ1)

NRM2(X2, fastNorm) ==
    IF fastNorm THEN RSqrt(SumSeq([k \in 1..Len(X2) |-> RMul(X2[k], X2[k])]))
    ELSE IF Len(X2) < 1 THEN ZERO
    ELSE IF Len(X2) = 1 THEN RAbs(X2[1])
    ELSE NRM2Loop(X2, 1, ZERO, ONE)

\* ------------------------------------------------------------ module globals

\* the module namespace of a fresh process: no global has been assigned
\* (defd is the set of loop variables that have been bound so far; the
\* other fields hold placeholders until BVLS and INITIALIZE assign them)
G0 ==
    [A |-> <<>>, B |-> <<>>, BND |-> <<>>, M |-> 0, N |-> 0,
     X |-> <<>>, W |-> <<>>, INDEX |-> <<>>, Z |-> <<>>,
     IERR |-> 0, EPS |-> ZERO, ITMAX |-> 0, ITER |-> 0,
     IZ |-> 0, IZ1 |-> 0, IZ2 |-> 0, NSETP |-> 0, NPP1 |-> 0,
     J |-> 0, JJ |-> 0, I |-> 0, II |-> 0, IBOUND |-> 0,
     FIND |-> FALSE, FREE |-> FALSE, HITBND |-> FALSE,
     ALPHA |-> ZERO, UP |-> ZERO, RNORM |-> ZERO, FASTNORM |-> FALSE,
     defd |-> {}]

\* ------------------------------------------------------------ TERMINATION

\* F(v): binds a value once for use in several places
Let1(v, F(_)) == F(v)

\* TERMINATION without "W(1:N) = ZERO"
TerminationKeepW(gg) ==
    IF gg.NPP1 <= gg.M
    THEN [gg EXCEPT !.RNORM = NRM2(Slice(gg.B, gg.NPP1, gg.M), gg.FASTNORM)]
    ELSE [gg EXCEPT !.RNORM = ZERO]

TERMINATION(gg) ==
    IF gg.NPP1 <= gg.M
    THEN [gg EXCEPT !.RNORM = NRM2(Slice(gg.B, gg.NPP1, gg.M), gg.FASTNORM)]
    ELSE [gg EXCEPT !.W = [k \in 1..gg.N |-> ZERO], !.RNORM = ZERO]

\* ------------------------------------------------------------ back-substitution

\* Z(1:I) := Z(1:I) - A(1:I,II)*Z(I+1), skipped on the first pass (I = NSETP)
BackSubElim(gg, I, II) ==
    IF I # gg.NSETP
    THEN [k \in 1..gg.M |->
            IF k <= I THEN RSub(gg.Z[k], RMul(gg.A[k][II], gg.Z[I + 1])) ELSE gg.Z[k]]
    ELSE gg.Z

\* "Solve the triangular system": the loop closing MOVE_J_FROM_SET_Z_TO_SET_P
\* and TEST_SET_P_AGAINST_CONSTRAINTS
RECURSIVE BackSub(_, _, _)
BackSub(gg, I, II) ==
    IF I < 1 THEN [gg EXCEPT !.I = 0, !.II = II]
    ELSE Let1(BackSubElim(gg, I, II), LAMBDA Z1 :
           BackSub([gg EXCEPT !.Z = [Z1 EXCEPT ![I] = RDiv(Z1[I], gg.A[I][gg.INDEX[I]])]],
                   I - 1, gg.INDEX[I]))

\* ------------------------------------------------------------ MOVE_COEF_I_FROM_SET_P_TO_SET_Z

\* R of the plane rotation that annihilates a2 against a1
GivensR(a1, a2, SCALE) ==
    Let1(RDiv(a1, SCALE), LAMBDA d1 :
    Let1(RDiv(a2, SCALE), LAMBDA d2 :
    Let1(RMul(SCALE, RSqrt(RAdd(RMul(d1, d1), RMul(d2, d2)))), LAMBDA R0 :
      IF RLt(IF RGt(RAbs(a1), RAbs(a2)) THEN a1 ELSE a2, ZERO) THEN RNeg(R0) ELSE R0)))

\* shift INDEX(J) down and rotate rows J-1, J of A and of B; column II
\* receives SM and ZERO
Rotate(gg, J, II, CC, SS, SM) ==
    [gg EXCEPT !.INDEX[J - 1] = II,
               !.II = II,
               !.A[J - 1] = [k \in 1..gg.N |->
                               IF k = II THEN SM
                               ELSE RAdd(RMul(CC, gg.A[J - 1][k]), RMul(SS, gg.A[J][k]))],
               !.A[J] = [k \in 1..gg.N |->
                           IF k = II THEN ZERO
                           ELSE RSub(RMul(CC, gg.A[J][k]), RMul(SS, gg.A[J - 1][k]))],
               !.B[J - 1] = RAdd(RMul(CC, gg.B[J - 1]), RMul(SS, gg.B[J])),
               !.B[J] = RSub(RMul(CC, gg.B[J]), RMul(SS, gg.B[J - 1]))]

\* the loop over J = JJ+1 .. NSETP
RECURSIVE GivensLoop(_, _)
GivensLoop(gg, J) ==
    IF J > gg.NSETP THEN gg
    ELSE Let1(gg.INDEX[J], LAMBDA II :
         Let1(gg.A[J - 1][II], LAMBDA a1 :
         Let1(gg.A[J][II], LAMBDA a2 :
         Let1(RAdd(RAbs(a1), RAbs(a2)), LAMBDA SCALE :
           IF RGt(SCALE, ZERO)
           THEN Let1(GivensR(a1, a2, SCALE), LAMBDA RR :
                  GivensLoop(Rotate(gg, J, II, RDiv(a1, RR), RDiv(a2, RR), RR), J + 1))
           ELSE GivensLoop(Rotate(gg, J, II, ONE, ZERO, a1), J + 1)))))

\* X(I) := BND(IBOUND,I) and the adjustment of B(1:JJ)
SetToBound(gg, I, xi) ==
    [gg EXCEPT !.X[I] = xi,
               !.B = IF RGt(RAbs(xi), ZERO) /\ gg.JJ > 0
                     THEN [k \in 1..gg.M |->
                             IF k <= gg.JJ THEN RSub(gg.B[k], RMul(gg.A[k][I], xi))
                             ELSE gg.B[k]]
                     ELSE @]

\* MOVE_COEF_I_FROM_SET_P_TO_SET_Z without the loop that closes the gap
\* unknown I leaves in INDEX(1..NSETP) and re-triangularizes A
MoveCoefNoShift(gg) ==
    [SetToBound(gg, gg.I, gg.BND[gg.IBOUND][gg.I])
       EXCEPT !.J = gg.J + 1,
              !.defd = @ \cup {"J"},
              !.NPP1 = gg.NSETP,
              !.NSETP = gg.NSETP - 1,
              !.IZ1 = gg.IZ1 - 1,
              !.INDEX[gg.IZ1 - 1] = gg.I]

MOVE_COEF_I_FROM_SET_P_TO_SET_Z(gg) ==
    [GivensLoop(SetToBound(gg, gg.I, gg.BND[gg.IBOUND][gg.I]), gg.JJ + 1)
       EXCEPT !.J = (IF gg.JJ + 1 <= gg.NSETP THEN gg.NSETP ELSE gg.J) + 1,
              !.defd = @ \cup {"J"},
              !.NPP1 = gg.NSETP,
              !.NSETP = gg.NSETP - 1,
              !.IZ1 = gg.IZ1 - 1,
              !.INDEX[gg.IZ1 - 1] = gg.I]

\* ------------------------------------------------------------ SEE_IF_ALL_CONSTRAINED_COEFFS_ARE_FEASIBLE

\* which bound Z(IP) is on or beyond: 1 lower, 2 upper, 0 neither
HitBound(gg, IP) ==
    IF RLe(gg.Z[IP], gg.BND[1][gg.INDEX[IP]]) THEN 1
    ELSE IF RGe(gg.Z[IP], gg.BND[2][gg.INDEX[IP]]) THEN 2
    ELSE 0

\* T = (BND(LBOUND,L) - X(L)) / (Z(IP) - X(L))
StepFraction(gg, IP, LBOUND) ==
    RDiv(RSub(gg.BND[LBOUND][gg.INDEX[IP]], gg.X[gg.INDEX[IP]]),
         RSub(gg.Z[IP], gg.X[gg.INDEX[IP]]))

RECURSIVE SeeIfLoop(_, _)
SeeIfLoop(gg, IP) ==
    IF IP > gg.NSETP THEN gg
    ELSE Let1(HitBound(gg, IP), LAMBDA LBOUND :
           IF LBOUND = 0 THEN SeeIfLoop(gg, IP + 1)
           ELSE Let1(StepFraction(gg, IP, LBOUND), LAMBDA T :
                  IF RGt(gg.ALPHA, T)
                  THEN SeeIfLoop([gg EXCEPT !.ALPHA = T, !.JJ = IP, !.IBOUND = LBOUND],
                                 IP + 1)
                  ELSE SeeIfLoop(gg, IP + 1)))

SEE_IF_ALL_CONSTRAINED_COEFFS_ARE_FEASIBLE(gg) ==
    Let1(SeeIfLoop([gg EXCEPT !.ALPHA = TWO], 1), LAMBDA g1 :
      [g1 EXCEPT !.HITBND = RGt(RAbs(RSub(g1.ALPHA, TWO)), ZERO),
                 !.defd = @ \cup {"IP", "L"}])

\* ------------------------------------------------------------ TEST_SET_P_AGAINST_CONSTRAINTS

\* whether variable L is in set P, and its position there
InP(gg, L) == \E IP \in 1..gg.NSETP : gg.INDEX[IP] = L

PosInP(gg, L) == CHOOSE IP \in 1..gg.NSETP : gg.INDEX[IP] = L

\* X := X + ALPHA*(Z - X) over set P, then I := INDEX(JJ)
Interpolate(gg) ==
    [gg EXCEPT !.X = [L \in 1..gg.N |->
                        IF InP(gg, L)
                        THEN RAdd(gg.X[L],
                                  RMul(gg.ALPHA, RSub(gg.Z[PosInP(gg, L)], gg.X[L])))
                        ELSE gg.X[L]],
               !.I = gg.INDEX[gg.JJ]]

\* LoopBHead without ITER = ITER + 1
LoopBHeadNoCount(gg) ==
    IF gg.ITER > gg.ITMAX
    THEN [g |-> [gg EXCEPT !.IERR = 4], to |-> "fine_LOOPB"]
    ELSE Let1(SEE_IF_ALL_CONSTRAINED_COEFFS_ARE_FEASIBLE(gg),
              LAMBDA g2 :
                IF ~g2.HITBND THEN [g |-> g2, to |-> "fine_LOOPB"]
                ELSE [g |-> Interpolate(g2), to |-> "MOVE_COEF"])

\* the head of one pass of the loop: count the pass, test the cap, test
\* feasibility; to is the label the code continues at
LoopBHead(gg) ==
    IF gg.ITER + 1 > gg.ITMAX
    THEN [g |-> [gg EXCEPT !.ITER = @ + 1, !.IERR = 4], to |-> "fine_LOOPB"]
    ELSE Let1(SEE_IF_ALL_CONSTRAINED_COEFFS_ARE_FEASIBLE([gg EXCEPT !.ITER = @ + 1]),
              LAMBDA g2 :
                IF ~g2.HITBND THEN [g |-> g2, to |-> "fine_LOOPB"]
                ELSE [g |-> Interpolate(g2), to |-> "MOVE_COEF"])

\* the scan after a demotion for another member of P on or outside a bound
RECURSIVE Recheck(_, _)
Recheck(gg, JJ) ==
    IF JJ > gg.NSETP THEN [gg EXCEPT !.JJ = gg.NSETP + 1]
    ELSE IF RLe(gg.X[gg.INDEX[JJ]], gg.BND[1][gg.INDEX[JJ]])
    THEN [gg EXCEPT !.I = gg.INDEX[JJ], !.JJ = JJ, !.IBOUND = 1]
    ELSE IF RGe(gg.X[gg.INDEX[JJ]], gg.BND[2][gg.INDEX[JJ]])
    THEN [gg EXCEPT !.I = gg.INDEX[JJ], !.JJ = JJ, !.IBOUND = 2]
    ELSE Recheck([gg EXCEPT !.I = gg.INDEX[JJ]], JJ + 1)

\* one pass of the inner loop: demote I, then look for the next one
DemoteStep(gg) ==
    Let1(MOVE_COEF_I_FROM_SET_P_TO_SET_Z(gg), LAMBDA g1 :
      IF g1.NSETP <= 0 THEN [g |-> g1, to |-> "fine_LOOPB"]
      ELSE Let1(Recheck([g1 EXCEPT !.IBOUND = 0], 1), LAMBDA g2 :
             IF g2.IBOUND <= 0 THEN [g |-> g2, to |-> "fine_ciclo2"]
             ELSE [g |-> g2, to |-> "MOVE_COEF"]))

\* label fine_ciclo2: copy B into Z and solve again
Resolve(gg) == BackSub([gg EXCEPT !.Z = gg.B], gg.NSETP, gg.II)

\* label fine_LOOPB: copy the scratch solution of set P into X
CopyZ(gg) ==
    [gg EXCEPT !.X = [L \in 1..gg.N |->
                        IF InP(gg, L) THEN gg.Z[PosInP(gg, L)] ELSE gg.X[L]],
               !.I = IF gg.NSETP >= 1 THEN gg.INDEX[gg.NSETP] ELSE @]

\* ------------------------------------------------------------ TEST_COEF_J_FOR_DIAG_ELT_AND_DIRECTION_OF_CHANGE

\* TestCoefEnd without "restore A(NPP1,J)" for a rejected candidate
TestCoefEndNoRestore(gg, UP, Anew, Znew, FIND) ==
    [gg EXCEPT !.UP = UP,
               !.Z = Znew,
               !.FIND = FIND,
               !.A[gg.NPP1][gg.J] = Anew,
               !.W[gg.J] = IF ~FIND THEN ZERO ELSE @]

\* the end of the test: store UP, Z and FIND; a rejected candidate gets
\* A(NPP1,J) back and W(J) = 0
TestCoefEnd(gg, UP, Anew, Znew, FIND) ==
    [gg EXCEPT !.UP = UP,
               !.Z = Znew,
               !.FIND = FIND,
               !.A[gg.NPP1][gg.J] = IF ~FIND THEN @ ELSE Anew,
               !.W[gg.J] = IF ~FIND THEN ZERO ELSE @]

\* column J, rows NPP1..M, with UP on the diagonal: the Householder vector
HouseVec(gg, UP, i) == IF i = gg.NPP1 THEN UP ELSE gg.A[i][gg.J]

\* Z := B with the transformation applied to rows NPP1..M
HouseB(gg, NORM, UP) ==
    Let1(RDiv(SumSeq([k \in 1..(gg.M - gg.NPP1 + 1) |->
                        RMul(RDiv(HouseVec(gg, UP, gg.NPP1 + k - 1), NORM),
                             gg.B[gg.NPP1 + k - 1])]),
              UP),
         LAMBDA SM :
           [i \in 1..gg.M |->
              IF i >= gg.NPP1 THEN RAdd(gg.B[i], RMul(SM, HouseVec(gg, UP, i)))
              ELSE gg.B[i]])

\* "Adjust Z() as though X(J) had been reset to zero"
AdjustZ(gg, Z2, diag) ==
    IF RGt(RAbs(gg.X[gg.J]), ZERO)
    THEN [i \in 1..gg.M |->
            IF i <= gg.NPP1
            THEN RAdd(Z2[i], RMul(IF i = gg.NPP1 THEN diag ELSE gg.A[i][gg.J], gg.X[gg.J]))
            ELSE Z2[i]]
    ELSE Z2

\* Direction with the two comparisons of ZTEST against X(J) exchanged
DirectionSwapped(gg, Z3, diag) ==
    IF gg.FREE THEN TRUE
    ELSE Let1(RDiv(Z3[gg.NPP1], diag), LAMBDA ZTEST :
           \/ RLt(gg.W[gg.J], ZERO) /\ RGt(ZTEST, gg.X[gg.J])
           \/ RGt(gg.W[gg.J], ZERO) /\ RLt(ZTEST, gg.X[gg.J]))

\* FIND for a candidate that passed the diagonal test
Direction(gg, Z3, diag) ==
    IF gg.FREE THEN TRUE
    ELSE Let1(RDiv(Z3[gg.NPP1], diag), LAMBDA ZTEST :
           \/ RLt(gg.W[gg.J], ZERO) /\ RLt(ZTEST, gg.X[gg.J])
           \/ RGt(gg.W[gg.J], ZERO) /\ RGt(ZTEST, gg.X[gg.J]))

\* the body of the test once the new diagonal VNORM is known
TestCoefBody(gg, VNORM, UP) ==
    IF RGt(RAbs(VNORM),
           RMul(gg.EPS, IF gg.NSETP < 1 THEN ZERO
                        ELSE NRM2(Col(gg.A, gg.J, 1, gg.NSETP), gg.FASTNORM)))
    THEN Let1(IF RGt(RAbs(VNORM), ZERO) THEN VNORM ELSE UP, LAMBDA diag :
         Let1(AdjustZ(gg, IF RGt(RAbs(VNORM), ZERO) THEN HouseB(gg, VNORM, UP) ELSE gg.B,
                      diag),
              LAMBDA Z3 : TestCoefEnd(gg, UP, diag, Z3, Direction(gg, Z3, diag))))
    ELSE TestCoefEnd(gg, UP, VNORM, gg.Z, gg.FIND)

TEST_COEF_J_FOR_DIAG_ELT_AND_DIRECTION_OF_CHANGE(gg) ==
    Let1(NRM2(Col(gg.A, gg.J, gg.NPP1, gg.M), gg.FASTNORM), LAMBDA VN0 :
    Let1(IF RGt(gg.A[gg.NPP1][gg.J], ZERO) THEN RNeg(VN0) ELSE VN0, LAMBDA VNORM :
      TestCoefBody(gg, VNORM, RSub(gg.A[gg.NPP1][gg.J], VNORM))))

\* ------------------------------------------------------------ SELECT_ANOTHER_COEFF_TO_SOLVE_FOR

\* the dual coefficient W(J) = A(NPP1:M,J) . B(NPP1:M)
Dual(gg, J) ==
    SumSeq([k \in 1..(gg.M - gg.NPP1 + 1) |->
              RMul(gg.A[gg.NPP1 + k - 1][J], gg.B[gg.NPP1 + k - 1])])

\* Eligible with FREE1 and FREE2 exchanged
EligibleSwapped(w, FREE1, FREE2) ==
    IF RLt(w, ZERO) THEN FREE2 ELSE IF RGt(w, ZERO) THEN FREE1 ELSE FALSE

\* whether a candidate that is not FREE goes to the diagonal/direction test
Eligible(w, FREE1, FREE2) ==
    IF RLt(w, ZERO) THEN FREE1 ELSE IF RGt(w, ZERO) THEN FREE2 ELSE FALSE

\* SelectOne without the test of the sign of W(J)
SelectOneAnySign(gg, J, FREE1, FREE2) ==
    IF FREE1 /\ FREE2
    THEN TEST_COEF_J_FOR_DIAG_ELT_AND_DIRECTION_OF_CHANGE([gg EXCEPT !.FREE = TRUE])
    ELSE TEST_COEF_J_FOR_DIAG_ELT_AND_DIRECTION_OF_CHANGE(
             [gg EXCEPT !.FREE = FALSE, !.W[J] = Dual(gg, J)])

\* the loop body for candidate J = INDEX(IZ)
SelectOne(gg, J, FREE1, FREE2) ==
    IF FREE1 /\ FREE2
    THEN TEST_COEF_J_FOR_DIAG_ELT_AND_DIRECTION_OF_CHANGE([gg EXCEPT !.FREE = TRUE])
    ELSE Let1(Dual(gg, J), LAMBDA w :
           IF Eligible(w, FREE1, FREE2)
           THEN TEST_COEF_J_FOR_DIAG_ELT_AND_DIRECTION_OF_CHANGE(
                    [gg EXCEPT !.FREE = FALSE, !.W[J] = w])
           ELSE [gg EXCEPT !.FREE = FALSE, !.W[J] = w])

RECURSIVE SelectLoop(_, _)
SelectLoop(gg, IZ) ==
    IF IZ > gg.IZ2 THEN [gg EXCEPT !.IZ = gg.IZ2 + 1]
    ELSE Let1(SelectOne([gg EXCEPT !.IZ = IZ, !.J = gg.INDEX[IZ],
                                   !.defd = @ \cup {"IZ", "J"}],
                        gg.INDEX[IZ],
                        RGt(gg.X[gg.INDEX[IZ]], gg.BND[1][gg.INDEX[IZ]]),
                        RLt(gg.X[gg.INDEX[IZ]], gg.BND[2][gg.INDEX[IZ]])),
              LAMBDA g2 : IF g2.FIND THEN g2 ELSE SelectLoop(g2, IZ + 1))

\* SELECT_ANOTHER_COEFF_TO_SOLVE_FOR with the scan starting at IZ1 + 1
SelectFromSecond(gg) == SelectLoop([gg EXCEPT !.FIND = FALSE], gg.IZ1 + 1)

SELECT_ANOTHER_COEFF_TO_SOLVE_FOR(gg) == SelectLoop([gg EXCEPT !.FIND = FALSE], gg.IZ1)

\* ------------------------------------------------------------ MOVE_J_FROM_SET_Z_TO_SET_P

\* apply the Householder transformation held in column J (rows NSETP..M,
\* UP on the diagonal) to column JJ
HouseCol(gg, JJ, NORM) ==
    Let1(RDiv(SumSeq([k \in 1..(gg.M - gg.NSETP + 1) |->
                        RMul(RDiv(gg.A[gg.NSETP + k - 1][gg.J], NORM),
                             gg.A[gg.NSETP + k - 1][JJ])]),
              gg.UP),
         LAMBDA SM :
           [gg EXCEPT !.JJ = JJ,
                      !.defd = @ \cup {"JZ"},
                      !.A = [i \in 1..gg.M |->
                               IF i >= gg.NSETP
                               THEN [gg.A[i] EXCEPT ![JJ] = RAdd(@, RMul(SM, gg.A[i][gg.J]))]
                               ELSE gg.A[i]]])

\* the loop over JZ = IZ1 .. IZ2
RECURSIVE HouseholderLoop(_, _, _)
HouseholderLoop(gg, JZ, NORM) ==
    IF JZ > gg.IZ2 THEN gg
    ELSE HouseholderLoop(HouseCol(gg, gg.INDEX[JZ], NORM), JZ + 1, NORM)

\* EnterP without IZ1 = IZ1 + 1
EnterPKeepIZ1(gg) ==
    [gg EXCEPT !.B = gg.Z,
               !.INDEX = [@ EXCEPT ![gg.IZ] = gg.INDEX[gg.IZ1], ![gg.IZ1] = gg.J],
               !.NSETP = gg.NPP1,
               !.NPP1 = @ + 1]

\* B := Z, J moves to the end of set P
EnterP(gg) ==
    [gg EXCEPT !.B = gg.Z,
               !.INDEX = [@ EXCEPT ![gg.IZ] = gg.INDEX[gg.IZ1], ![gg.IZ1] = gg.J],
               !.IZ1 = @ + 1,
               !.NSETP = gg.NPP1,
               !.NPP1 = @ + 1]

\* from "for L in xrange(NPP1, M + 1)" on; exc = "NameError" when L = L + 1
\* follows a null loop and nothing has bound L
MoveJTail(gg) ==
    IF gg.NPP1 > gg.M /\ "L" \notin gg.defd THEN [g |-> gg, exc |-> "NameError"]
    ELSE [g |-> BackSub([gg EXCEPT !.A = [i \in 1..gg.M |->
                                            IF i >= gg.NPP1
                                            THEN [gg.A[i] EXCEPT ![gg.J] = ZERO]
                                            ELSE gg.A[i]],
                                   !.defd = @ \cup {"L"},
                                   !.W[gg.J] = ZERO],
                        gg.NSETP, gg.II),
          exc |-> "none"]

\* whether JZ = JZ + 1 after the loop over JZ finds JZ bound
JZBound(gg) == "JZ" \in gg.defd

\* from NORM = A(NSETP,J) on; exc = "NameError" when JZ = JZ + 1 follows a
\* null loop and nothing has bound JZ; g is then the state at the raise
MoveJBody(gg, NORM) ==
    IF RGt(RAbs(NORM), ZERO)
    THEN Let1(HouseholderLoop([gg EXCEPT !.A[gg.NSETP][gg.J] = gg.UP], gg.IZ1, NORM),
              LAMBDA g3 :
                IF ~JZBound(g3) THEN [g |-> g3, exc |-> "NameError"]
                ELSE MoveJTail([g3 EXCEPT !.A[gg.NSETP][gg.J] = NORM]))
    ELSE MoveJTail([gg EXCEPT !.A[gg.NSETP][gg.J] = gg.UP])

MOVE_J_FROM_SET_Z_TO_SET_P(gg) == MoveJBody(EnterP(gg), gg.A[gg.NPP1][gg.J])

\* ------------------------------------------------------------ INITIALIZE

\* the starting value of a variable whose interval is not a single point,
\* as the statements compute it: the comparison operators yield a
\* boolean, which the assignment into X() stores as 0.0 or 1.0
InitX(lo, up) ==
    IF RLe(lo, RNeg(FMAX))
    THEN IF RGe(up, FMAX) THEN ZERO ELSE RBool(RLt(ZERO, up))
    ELSE IF RGe(up, FMAX) THEN RBool(RGt(ZERO, lo))
    ELSE RBool(RGt(lo, RBool(RLt(up, ZERO))))

\* IsFixed with RANGE < ZERO in place of RANGE <= ZERO
IsFixedStrict(lo, up) ==
    /\ ~RLe(lo, RNeg(FMAX))
    /\ ~RGe(up, FMAX)
    /\ RLt(RSub(up, lo), ZERO)

\* both bounds finite and RANGE <= ZERO: "constrained to a single value"
IsFixed(lo, up) ==
    /\ ~RLe(lo, RNeg(FMAX))
    /\ ~RGe(up, FMAX)
    /\ RLe(RSub(up, lo), ZERO)

\* both bounds finite and RANGE neither <= ZERO nor > ZERO
RangeError(lo, up) ==
    /\ ~RLe(lo, RNeg(FMAX))
    /\ ~RGe(up, FMAX)
    /\ ~RLe(RSub(up, lo), ZERO)
    /\ ~RGt(RSub(up, lo), ZERO)

\* "Change B() to reflect a nonzero starting value for X(J)"
AdjustB(gg, J) ==
    IF RGt(RAbs(gg.X[J]), ZERO)
    THEN [gg EXCEPT !.B = [i \in 1..gg.M |-> RSub(gg.B[i], RMul(gg.A[i][J], gg.X[J]))]]
    ELSE gg

\* X(J) is constrained to a single value: J joins set F
FixVar(gg, IZ, J, lo) ==
    [gg EXCEPT !.INDEX = [@ EXCEPT ![IZ] = gg.INDEX[gg.IZ2], ![gg.IZ2] = J],
               !.IZ2 = @ - 1,
               !.X[J] = lo,
               !.W[J] = ZERO,
               !.J = J]

RECURSIVE InitLoop(_, _)
\* the loop body for J = INDEX(IZ) with bounds lo, up
InitOne(gg, IZ, J, lo, up) ==
    IF RangeError(lo, up) THEN [gg EXCEPT !.IERR = 3, !.J = J, !.IZ = IZ]
    ELSE IF IsFixed(lo, up) THEN InitLoop(AdjustB(FixVar(gg, IZ, J, lo), J), IZ)
    ELSE InitLoop(AdjustB([gg EXCEPT !.X[J] = InitX(lo, up), !.J = J], J), IZ + 1)

\* "Loop on IZ to initialize X()"
InitLoop(gg, IZ) ==
    IF IZ > gg.IZ2 THEN [gg EXCEPT !.IZ = IZ]
    ELSE InitOne(gg, IZ, gg.INDEX[IZ], gg.BND[1][gg.INDEX[IZ]], gg.BND[2][gg.INDEX[IZ]])

\* SizeError with the two dimensions of BND exchanged
SizeErrorRows(gg) ==
    \/ gg.N < 2
    \/ gg.M < 2
    \/ Len(gg.B) # gg.M
    \/ Len(gg.BND) # gg.N
    \/ Len(gg.BND[1]) # 2

\* the size test of INITIALIZE
SizeError(gg) ==
    \/ gg.N < 2
    \/ gg.M < 2
    \/ Len(gg.B) # gg.M
    \/ Len(gg.BND) # 2
    \/ Len(gg.BND[1]) # gg.N

\* exc = "SystemExit" when the size test fails (sys.exit)
INITIALIZE(gg, eps1, itmax1) ==
    IF SizeError(gg) THEN [g |-> [gg EXCEPT !.IERR = 2], exc |-> "SystemExit"]
    ELSE [g |-> InitLoop([gg EXCEPT !.IERR = 0,
                                   !.EPS = IF Len(eps1) = 0 THEN EPSDEFAULT ELSE eps1[1],
                                   !.ITMAX = IF Len(itmax1) = 0 THEN 3 * gg.N
                                             ELSE itmax1[1],
                                   !.ITER = 0,
                                   !.IZ2 = gg.N,
                                   !.IZ1 = 1,
                                   !.NSETP = 0,
                                   !.NPP1 = 1,
                                   !.defd = @ \cup {"IZ", "J"}],
                         1),
          exc |-> "none"]

\* ------------------------------------------------------------ BVLS

\* the prologue of BVLS: load the arguments and the work arrays into the
\* globals
Load(gg, A1, B1, BND1) ==
    [gg EXCEPT !.A = A1, !.B = B1, !.BND = BND1,
               !.M = Len(A1), !.N = Len(A1[1]),
               !.X = [k \in 1..Len(A1[1]) |-> ZERO],
               !.W = [k \in 1..Len(A1[1]) |-> ZERO],
               !.INDEX = [k \in 1..Len(A1[1]) |-> k],
               !.Z = [k \in 1..Len(A1) |-> ZERO],
               !.FASTNORM = FALSE]

\* LoopExit without the test of the error flag
LoopExitNoFlag(gg) == gg.IZ1 > gg.IZ2 \/ gg.NSETP >= gg.M

\* the test heading the main loop: quit on an error flag, an empty set Z,
\* or M triangularized columns
LoopExit(gg) == gg.IERR # 0 \/ gg.IZ1 > gg.IZ2 \/ gg.NSETP >= gg.M

\* ------------------------------------------------------------ inputs

\* largest number of unknowns N of the enumerated calls
MaxN == 2

\* columns of A (M = 2 rows); their Euclidean norms are rational
ColVals == {<<R(1), R(0)>>, <<R(0), R(1)>>, <<R(3), R(4)>>}

\* right-hand sides B
BVals == {<<R(5), R(-3)>>, <<R(-3), R(5)>>, <<R(0), R(0)>>, <<R(5), R(5)>>}

\* intervals <<lower, upper>>: unbounded, one-sided, two-sided, a single
\* point, and an inconsistent pair
Ivals ==
    {<<RNeg(FMAX), FMAX>>, <<R(0), FMAX>>, <<RNeg(FMAX), R(-1)>>,
     <<R(0), R(10)>>, <<R(2), R(10)>>, <<R(2), R(2)>>, <<R(3), R(1)>>}

\* the M x N matrix whose columns are cs
MatOfCols(cs, M) == [i \in 1..M |-> [j \in 1..Len(cs) |-> cs[j][i]]]

\* BND as the code indexes it: row 1 the lower, row 2 the upper bounds
BndOfIvals(iv) == <<[j \in 1..Len(iv) |-> iv[j][1]], [j \in 1..Len(iv) |-> iv[j][2]]>>

Seqs(S, n) == [1..n -> S]

\* the argument triples with M = 2 and N = n
InputsOf(n) ==
    {[A1 |-> MatOfCols(cs, 2), B1 |-> b, BND1 |-> BndOfIvals(iv)] :
       cs \in Seqs(ColVals, n), b \in BVals, iv \in Seqs(Ivals, n)}

\* a row / column of integers
RSeq(s) == [k \in 1..Len(s) |-> R(s[k])]

\* calls whose arrays fail the size test: M = 1; N = 1; len(B) # M; BND
\* with three rows; BND with three columns
BadInputs ==
    {[A1 |-> <<RSeq(<<1, 0>>)>>, B1 |-> RSeq(<<5>>),
      BND1 |-> <<RSeq(<<0, 0>>), RSeq(<<10, 10>>)>>],
     [A1 |-> <<RSeq(<<1>>), RSeq(<<0>>)>>, B1 |-> RSeq(<<5, -3>>),
      BND1 |-> <<RSeq(<<0>>), RSeq(<<10>>)>>],
     [A1 |-> <<RSeq(<<1, 0>>), RSeq(<<0, 1>>)>>, B1 |-> RSeq(<<5, -3, 0>>),
      BND1 |-> <<RSeq(<<0, 0>>), RSeq(<<10, 10>>)>>],
     [A1 |-> <<RSeq(<<1, 0>>), RSeq(<<0, 1>>)>>, B1 |-> RSeq(<<5, -3>>),
      BND1 |-> <<RSeq(<<0, 0>>), RSeq(<<10, 10>>), RSeq(<<0, 0>>)>>],
     [A1 |-> <<RSeq(<<1, 0>>), RSeq(<<0, 1>>)>>, B1 |-> RSeq(<<5, -3>>),
      BND1 |-> <<RSeq(<<0, 0, 0>>), RSeq(<<10, 10, 10>>)>>]}

\* a call with N = 4 whose 13th pass of the feasibility loop exceeds
\* ITMAX = 3*N = 12
CapInputs ==
    {[A1 |-> <<RSeq(<<4, 1, 3, 0>>), RSeq(<<3, 0, 4, 3>>)>>,
      B1 |-> RSeq(<<0, -12>>),
      BND1 |-> <<RSeq(<<-2, 0, -3, -FMAXN>>), RSeq(<<1, 5, -1, -5>>)>>]}

\* a call with N = 3: two unknowns that are solved for, one of which is
\* moved back to its bound, next to a third held at 2
FixedInputs ==
    {[A1 |-> <<RSeq(<<0, 3, 0>>), RSeq(<<1, 4, 1>>)>>,
      B1 |-> RSeq(<<-3, 5>>),
      BND1 |-> <<RSeq(<<-FMAXN, -FMAXN, 2>>), RSeq(<<FMAXN, -1, 2>>)>>]}

\* the calls made one after the other in one process: two unknowns that
\* both enter the solution; one free unknown next to one held at 2; both
\* unknowns in [0, 10]
CallInputs ==
    {[A1 |-> <<RSeq(<<0, 3>>), RSeq(<<1, 4>>)>>, B1 |-> RSeq(<<-3, 5>>),
      BND1 |-> <<RSeq(<<-FMAXN, -FMAXN>>), RSeq(<<FMAXN, -1>>)>>],
     [A1 |-> <<RSeq(<<1, 0>>), RSeq(<<0, 1>>)>>, B1 |-> RSeq(<<-3, 5>>),
      BND1 |-> <<RSeq(<<2, 0>>), RSeq(<<2, 10>>)>>],
     [A1 |-> <<RSeq(<<1, 0>>), RSeq(<<0, 1>>)>>, B1 |-> RSeq(<<5, -3>>),
      BND1 |-> <<RSeq(<<0, 0>>), RSeq(<<10, 10>>)>>]}

\* calls that pass the bounds one row <<lower, upper>> per unknown (an
\* N x 2 array): N = 3, and N = 2 where the array is square
PairInputs ==
    {[A1 |-> <<RSeq(<<0, 3, 0>>), RSeq(<<1, 4, 1>>)>>, B1 |-> RSeq(<<-3, 5>>),
      BND1 |-> <<RSeq(<<0, 10>>), RSeq(<<0, 10>>), RSeq(<<2, 2>>)>>],
     [A1 |-> <<RSeq(<<1, 0>>), RSeq(<<0, 1>>)>>, B1 |-> RSeq(<<5, -3>>),
      BND1 |-> <<RSeq(<<0, 10>>), RSeq(<<2, 2>>)>>],
     [A1 |-> <<RSeq(<<1, 0>>), RSeq(<<0, 1>>)>>, B1 |-> RSeq(<<5, -3>>),
      BND1 |-> <<RSeq(<<0, 10>>), RSeq(<<0, 10>>)>>]}

\* calls that also pass a tolerance, an iteration cap or the norm mode
OptionInputs ==
    {[A1 |-> <<RSeq(<<1, 0>>), RSeq(<<0, 1>>)>>, B1 |-> RSeq(<<5, -3>>),
      BND1 |-> <<RSeq(<<0, 0>>), RSeq(<<10, 10>>)>>, EPS1 |-> <<1, 1024>>],
     [A1 |-> <<RSeq(<<1, 0>>), RSeq(<<0, 1>>)>>, B1 |-> RSeq(<<5, -3>>),
      BND1 |-> <<RSeq(<<0, 0>>), RSeq(<<10, 10>>)>>, ITMAX1 |-> 1],
     [A1 |-> <<RSeq(<<1, 0>>), RSeq(<<0, 1>>)>>, B1 |-> RSeq(<<5, -3>>),
      BND1 |-> <<RSeq(<<0, 0>>), RSeq(<<10, 10>>)>>, FASTNORM1 |-> TRUE]}

\* calls whose second column is nearly a multiple of the first: once
\* unknown 1 is solved for, the new diagonal element 1/100 of unknown 2 is
\* below EPS times the norm 100000 of the part of its column above; unknown
\* 2 is free, or rests on its lower bound 0
DependentInputs ==
    {[A1 |-> <<<<R(1), R(100000)>>, <<R(0), <<1, 100>>>>>>, B1 |-> RSeq(<<5, 5>>),
      BND1 |-> <<RSeq(<<-FMAXN, -FMAXN>>), RSeq(<<FMAXN, FMAXN>>)>>],
     [A1 |-> <<<<R(1), R(100000)>>, <<R(0), <<1, 100>>>>>>, B1 |-> RSeq(<<5, 5>>),
      BND1 |-> <<RSeq(<<-FMAXN, 0>>), RSeq(<<FMAXN, 10>>)>>]}

\* a call with N = 3 > M: unknown 1 stays on its lower bound 0 with a
\* negative dual coefficient while unknowns 2 and 3 are solved for
SaturatedInputs ==
    {[A1 |-> <<RSeq(<<1, 0, 3>>), RSeq(<<0, 1, 4>>)>>, B1 |-> RSeq(<<-3, 5>>),
      BND1 |-> <<RSeq(<<0, -FMAXN, -FMAXN>>), RSeq(<<10, FMAXN, FMAXN>>)>>]}

\* the calls of the single-call specification besides the enumerated ones
OtherInputs ==
    BadInputs \cup CapInputs \cup FixedInputs \cup CallInputs \cup PairInputs
      \cup OptionInputs \cup DependentInputs \cup SaturatedInputs

\* most calls one process makes
MaxCalls == 3

NoArgs == [A1 |-> <<>>, B1 |-> <<>>, BND1 |-> <<>>]

\* ------------------------------------------------------------ state

Threads == {1, 2}

\* g: the module's globals; pc, args, ret: position, arguments and
\* result of each thread's BVLS call; hist: the calls thread 1 has
\* finished, each with its arguments and its result
VARIABLES g, pc, args, ret, hist

vars == <<g, pc, args, ret, hist>>

NoRet == [exc |-> "none", val |-> [X |-> <<>>]]

\* the loop variables that are read after their loop
LoopNames == {"IZ", "J", "JZ", "L", "IP"}

\* the namespace after some earlier call has bound every loop variable
GWarm == [G0 EXCEPT !.defd = LoopNames]

\* one call on thread 1, in a fresh process or after earlier calls
Init ==
    /\ g \in {G0, GWarm}
    /\ pc = [t \in Threads |-> IF t = 1 THEN "BVLS" ELSE "idle"]
    /\ \/ \E n \in 2..MaxN : \E a \in InputsOf(n) :
             args = [t \in Threads |-> IF t = 1 THEN a ELSE NoArgs]
       \/ \E a \in OtherInputs :
             args = [t \in Threads |-> IF t = 1 THEN a ELSE NoArgs]
    /\ ret = [t \in Threads |-> NoRet]
    /\ hist = <<>>

\* a fresh process whose thread 1 makes up to MaxCalls calls
InitCalls ==
    /\ g = G0
    /\ pc = [t \in Threads |-> IF t = 1 THEN "BVLS" ELSE "idle"]
    /\ \E a \in CallInputs : args = [t \in Threads |-> IF t = 1 THEN a ELSE NoArgs]
    /\ ret = [t \in Threads |-> NoRet]
    /\ hist = <<>>

\* two threads each about to call BVLS
InitConc ==
    /\ g = GWarm
    /\ pc = [t \in Threads |-> "BVLS"]
    /\ args \in [Threads -> CallInputs]
    /\ ret = [t \in Threads |-> NoRet]
    /\ hist = <<>>

\* the places of BVLS where the model lets another thread run: before the
\* call, between the prologue and INITIALIZE, between TERMINATION and the
\* copy-out, and after the call.  (The interpreter may switch threads
\* anywhere; the schedules kept are a subset of the real ones.)
SwitchPoints == {"idle", "BVLS", "INITIALIZE", "return", "done", "raised"}

Sched(t) == \A u \in Threads \ {t} : pc[u] \in SwitchPoints

\* thread t is at label and is the one that runs
At(t, label) == pc[t] = label /\ Sched(t)

\* the parameters of BVLS
Parameters == {"A1", "B1", "BND1"}

\* the call binds its arguments to the parameters (a TypeError when it
\* passes one that BVLS does not have), then BVLS lines 1265-1291
Enter(t) ==
    /\ At(t, "BVLS")
    /\ IF DOMAIN args[t] \subseteq Parameters
       THEN /\ g' = Load(g, args[t].A1, args[t].B1, args[t].BND1)
            /\ pc' = [pc EXCEPT ![t] = "INITIALIZE"]
            /\ ret' = ret
       ELSE /\ g' = g
            /\ pc' = [pc EXCEPT ![t] = "raised"]
            /\ ret' = [ret EXCEPT ![t].exc = "TypeError"]
    /\ UNCHANGED <<args, hist>>

\* a phase ends: r.g are the globals it leaves; it either raised r.exc or
\* control goes on at label to
Outcome(t, r, to) ==
    /\ g' = r.g
    /\ pc' = [pc EXCEPT ![t] = IF r.exc = "none" THEN to ELSE "raised"]
    /\ ret' = [ret EXCEPT ![t].exc = r.exc]
    /\ UNCHANGED <<args, hist>>

\* a step of TEST_SET_P_AGAINST_CONSTRAINTS ends at label r.to
Goto(t, r) ==
    /\ g' = r.g
    /\ pc' = [pc EXCEPT ![t] = r.to]
    /\ UNCHANGED <<args, ret, hist>>

Initialize(t) ==
    /\ At(t, "INITIALIZE")
    /\ Outcome(t, INITIALIZE(g, <<>>, <<>>), "LOOP")

\* the loop test is true: leave the main loop
Quit(t) ==
    /\ At(t, "LOOP")
    /\ LoopExit(g)
    /\ pc' = [pc EXCEPT ![t] = "fine"]
    /\ UNCHANGED <<g, args, ret, hist>>

Select(t) ==
    /\ At(t, "LOOP")
    /\ ~LoopExit(g)
    /\ g' = SELECT_ANOTHER_COEFF_TO_SOLVE_FOR(g)
    /\ pc' = [pc EXCEPT ![t] = IF g'.FIND THEN "MOVE_J" ELSE "fine"]
    /\ UNCHANGED <<args, ret, hist>>

MoveJ(t) ==
    /\ At(t, "MOVE_J")
    /\ Outcome(t, MOVE_J_FROM_SET_Z_TO_SET_P(g), "LOOPB")

LoopB(t) ==
    /\ At(t, "LOOPB")
    /\ Goto(t, LoopBHead(g))

MoveCoef(t) ==
    /\ At(t, "MOVE_COEF")
    /\ Goto(t, DemoteStep(g))

SolveAgain(t) ==
    /\ At(t, "fine_ciclo2")
    /\ g' = Resolve(g)
    /\ pc' = [pc EXCEPT ![t] = "LOOPB"]
    /\ UNCHANGED <<args, ret, hist>>

CopyBack(t) ==
    /\ At(t, "fine_LOOPB")
    /\ g' = CopyZ(g)
    /\ pc' = [pc EXCEPT ![t] = "LOOP"]
    /\ UNCHANGED <<args, ret, hist>>

Terminate(t) ==
    /\ At(t, "fine")
    /\ g' = TERMINATION(g)
    /\ pc' = [pc EXCEPT ![t] = "return"]
    /\ UNCHANGED <<args, ret, hist>>

\* BVLS lines 1324-1334: the locals A1 .. ITER1 are dropped, X1 is returned
ReturnValue(gg) == [X |-> gg.X]

Return(t) ==
    /\ At(t, "return")
    /\ ret' = [ret EXCEPT ![t].val = ReturnValue(g)]
    /\ pc' = [pc EXCEPT ![t] = "done"]
    /\ UNCHANGED <<g, args, hist>>

\* the caller goes on after a call that returned or raised: the call is
\* recorded and the next one starts
Call(t) ==
    /\ t = 1
    /\ pc[t] \in {"done", "raised"}
    /\ Sched(t)
    /\ Len(hist) + 1 < MaxCalls
    /\ hist' = Append(hist, [args |-> args[t], ret |-> ret[t]])
    /\ \E a \in CallInputs : args' = [args EXCEPT ![t] = a]
    /\ ret' = [ret EXCEPT ![t] = NoRet]
    /\ pc' = [pc EXCEPT ![t] = "BVLS"]
    /\ UNCHANGED g

Step(t) ==
    \/ Enter(t)
    \/ Initialize(t)
    \/ Quit(t)
    \/ Select(t)
    \/ MoveJ(t)
    \/ LoopB(t)
    \/ MoveCoef(t)
    \/ SolveAgain(t)
    \/ CopyBack(t)
    \/ Terminate(t)
    \/ Return(t)

Next == \E t \in Threads : Step(t)

Spec == Init /\ [][Next]_vars

NextCalls == \E t \in Threads : Step(t) \/ Call(t)

SpecCalls == InitCalls /\ [][NextCalls]_vars

SpecConc == InitConc /\ [][Next]_vars

\* the positions of a call
Labels ==
    {"idle", "BVLS", "INITIALIZE", "LOOP", "MOVE_J", "LOOPB", "MOVE_COEF",
     "fine_ciclo2", "fine_LOOPB", "fine", "return", "done", "raised"}

\* thread t's call moves on to another position
Advance(t) ==
    /\ pc[t] \notin {"idle", "done", "raised"}
    /\ \E l \in Labels \ {pc[t]} : pc' = [pc EXCEPT ![t] = l]

\* intervals for the calls with more than two unknowns: unbounded,
\* one-sided, two-sided, a single point
CoarseIvals ==
    {<<RNeg(FMAX), FMAX>>, <<RNeg(FMAX), R(-1)>>, <<R(2), R(10)>>, <<R(2), R(2)>>}

\* the argument triples with M = 2 and N = n over CoarseIvals
CoarseInputsOf(n) ==
    {[A1 |-> MatOfCols(cs, 2), B1 |-> b, BND1 |-> BndOfIvals(iv)] :
       cs \in Seqs(ColVals, n), b \in BVals, iv \in Seqs(CoarseIvals, n)}

\* one call on thread 1: every call of Init with two unknowns, and the
\* calls over CoarseIvals with more
InitFair ==
    /\ g \in {G0, GWarm}
    /\ pc = [t \in Threads |-> IF t = 1 THEN "BVLS" ELSE "idle"]
    /\ \/ \E a \in InputsOf(2) :
             args = [t \in Threads |-> IF t = 1 THEN a ELSE NoArgs]
       \/ \E n \in 3..MaxN : \E a \in CoarseInputsOf(n) :
             args = [t \in Threads |-> IF t = 1 THEN a ELSE NoArgs]
       \/ \E a \in OtherInputs :
             args = [t \in Threads |-> IF t = 1 THEN a ELSE NoArgs]
    /\ ret = [t \in Threads |-> NoRet]
    /\ hist = <<>>

\* one call that keeps running: the interpreter goes on executing a call
\* that has started until it returns or raises
SpecFair == InitFair /\ [][Next]_vars /\ \A t \in Threads : WF_pc(Advance(t))

\* ------------------------------------------------------------ a call run alone

\* BVLS from label on, on globals gg, with no other call in between: the
\* result the caller gets
RECURSIVE RunFrom(_, _)
RunFrom(gg, label) ==
    CASE label = "INITIALIZE" ->
           Let1(INITIALIZE(gg, <<>>, <<>>), LAMBDA r :
             IF r.exc # "none" THEN [exc |-> r.exc, val |-> NoRet.val]
             ELSE RunFrom(r.g, "LOOP"))
      [] label = "LOOP" ->
           IF LoopExit(gg) THEN RunFrom(gg, "fine")
           ELSE Let1(SELECT_ANOTHER_COEFF_TO_SOLVE_FOR(gg), LAMBDA g1 :
                  RunFrom(g1, IF g1.FIND THEN "MOVE_J" ELSE "fine"))
      [] label = "MOVE_J" ->
           Let1(MOVE_J_FROM_SET_Z_TO_SET_P(gg), LAMBDA r :
             IF r.exc # "none" THEN [exc |-> r.exc, val |-> NoRet.val]
             ELSE RunFrom(r.g, "LOOPB"))
      [] label = "LOOPB" -> Let1(LoopBHead(gg), LAMBDA r : RunFrom(r.g, r.to))
      [] label = "MOVE_COEF" -> Let1(DemoteStep(gg), LAMBDA r : RunFrom(r.g, r.to))
      [] label = "fine_ciclo2" -> RunFrom(Resolve(gg), "LOOPB")
      [] label = "fine_LOOPB" -> RunFrom(CopyZ(gg), "LOOP")
      [] label = "fine" -> [exc |-> "none", val |-> ReturnValue(TERMINATION(gg))]

\* the result of BVLS(a) in a process where earlier calls have run
Alone(a) == RunFrom(Load(GWarm, a.A1, a.B1, a.BND1), "INITIALIZE")

\* ------------------------------------------------------------ properties

\* the labels at which a call that passed INITIALIZE stands between phases
Between ==
    {"LOOP", "MOVE_J", "LOOPB", "MOVE_COEF", "fine_ciclo2", "fine_LOOPB", "fine",
     "return", "done"}

\* the sizes of thread t's call
ArgM(t) == Len(args[t].A1)

ArgN(t) == Len(args[t].A1[1])

\* the bounds thread t passed for unknown j
Lower(t, j) == args[t].BND1[1][j]

Upper(t, j) == args[t].BND1[2][j]

\* the arrays of thread t's call agree with M and N
ShapesAgree(t) ==
    /\ Len(args[t].B1) = ArgM(t)
    /\ Len(args[t].BND1) = 2
    /\ Len(args[t].BND1[1]) = ArgN(t)

\* a valid call: M >= 2, N >= 2, consistent shapes, lower <= upper
ValidCall(t) ==
    /\ ArgM(t) >= 2
    /\ ArgN(t) >= 2
    /\ ShapesAgree(t)
    /\ \A j \in 1..ArgN(t) : RLe(Lower(t, j), Upper(t, j))

\* x lies in thread t's interval for unknown j
Within(t, j, x) == RLe(Lower(t, j), x) /\ RLe(x, Upper(t, j))

\* the position of unknown j in INDEX
PosOf(j) == CHOOSE k \in 1..Len(g.INDEX) : g.INDEX[k] = j

\* C1: for every valid input, each component of the X that BVLS returns
\* lies between its lower and its upper bound.
C1_ReturnedXWithinBounds ==
    \A t \in Threads :
      pc[t] = "done" /\ ValidCall(t) =>
        \A j \in 1..ArgN(t) : Within(t, j, ret[t].val.X[j])

\* C2: when some unknown has lower > upper, INITIALIZE leaves IERR = 3,
\* nothing is promoted, and that unknown is not put among the fixed ones.
C2_InconsistentBoundsAbort ==
    \A t \in Threads :
      /\ pc[t] \in Between
      /\ ArgM(t) >= 2 /\ ArgN(t) >= 2 /\ ShapesAgree(t)
      /\ \E j \in 1..ArgN(t) : RGt(Lower(t, j), Upper(t, j))
      => /\ g.IERR = 3
         /\ g.NSETP = 0
         /\ \A j \in 1..ArgN(t) :
              RGt(Lower(t, j), Upper(t, j)) => PosOf(j) <= g.IZ2

\* C3: a call with M < 2 or N < 2 comes back to its caller with status 1,
\* a call whose array shapes disagree with M, N comes back with status 2;
\* neither attempts a solve.
C3_SizeErrorsReturnStatus ==
    \A t \in Threads :
      /\ pc[t] \notin {"idle", "BVLS", "INITIALIZE"}
      /\ (ArgM(t) < 2 \/ ArgN(t) < 2 \/ ~ShapesAgree(t))
      => /\ ret[t].exc = "none"
         /\ pc[t] \in {"fine", "return", "done"}
         /\ g.IERR = IF ArgM(t) < 2 \/ ArgN(t) < 2 THEN 1 ELSE 2

\* C4: a call that stops on the iteration cap (IERR = 4) returns an X that
\* is within bounds for every unknown.
C4_CapKeepsXWithinBounds ==
    \A t \in Threads :
      pc[t] = "done" /\ g.IERR = 4 /\ ValidCall(t) =>
        \A j \in 1..ArgN(t) : Within(t, j, ret[t].val.X[j])

\* an unknown of thread t's call whose two bounds are the same number
\* (a bound, not the "no bound" sentinel)
EqualBounds(t, j) ==
    /\ Lower(t, j) = Upper(t, j)
    /\ RGt(Lower(t, j), RNeg(FMAX))
    /\ RLt(Upper(t, j), FMAX)

\* C5: an unknown with lower = upper keeps that value in X from
\* INITIALIZE on and in the returned X, stands in the tail INDEX(IZ2+1..N),
\* and is never the candidate J handed to the promotion.
C5_FixedVariableStaysFixed ==
    \A t \in Threads :
      pc[t] \in Between =>
        \A j \in 1..ArgN(t) :
          EqualBounds(t, j) =>
            /\ g.X[j] = Lower(t, j)
            /\ PosOf(j) > g.IZ2
            /\ PosOf(j) > g.NSETP
            /\ (pc[t] = "MOVE_J" => g.J # j)
            /\ (pc[t] = "done" => ret[t].val.X[j] = Lower(t, j))

\* a call returned with one unknown fixed at a nonzero value while another
\* unknown was promoted and solved for
C5_Witness ==
    /\ pc[1] = "done"
    /\ g.NSETP >= 1
    /\ \E j \in 1..ArgN(1) :
         /\ EqualBounds(1, j)
         /\ ret[1].val.X[j] = R(2)
         /\ args[1].A1[1][j] # ZERO

\* C6: when a call returns with IERR = 0, W(j) = 0 for every j in set P,
\* W(j) <= 0 for every j in set Z whose X(j) is at its lower bound, and
\* W(j) >= 0 for every j in set Z whose X(j) is at its upper bound.
C6_DualSignsOnSuccess ==
    \A t \in Threads :
      pc[t] = "done" /\ g.IERR = 0 =>
        /\ \A k \in 1..g.NSETP : g.W[g.INDEX[k]] = ZERO
        /\ \A k \in g.IZ1..g.IZ2 :
             /\ g.X[g.INDEX[k]] = Lower(t, g.INDEX[k]) => RLe(g.W[g.INDEX[k]], ZERO)
             /\ g.X[g.INDEX[k]] = Upper(t, g.INDEX[k]) => RGe(g.W[g.INDEX[k]], ZERO)

\* a call returned with IERR = 0, one unknown solved for and another left
\* at its lower bound with a negative dual
C6_Witness ==
    /\ pc[1] = "done"
    /\ g.IERR = 0
    /\ g.NSETP >= 1
    /\ \E k \in g.IZ1..g.IZ2 :
         /\ g.X[g.INDEX[k]] = Lower(1, g.INDEX[k])
         /\ RLt(g.W[g.INDEX[k]], ZERO)

\* C7: between phases INDEX is a permutation of 1..N split into
\* P = INDEX(1..NSETP), Z = INDEX(IZ1..IZ2), F = INDEX(IZ2+1..N) with
\* IZ1 = NSETP + 1 = NPP1, and neither P nor Z holds a fixed unknown.
C7_IndexLayout ==
    \A t \in Threads :
      pc[t] \in Between =>
        /\ Len(g.INDEX) = ArgN(t)
        /\ {g.INDEX[k] : k \in 1..ArgN(t)} = 1..ArgN(t)
        /\ 0 <= g.NSETP /\ g.NSETP <= g.IZ2 /\ g.IZ2 <= ArgN(t)
        /\ g.IZ1 = g.NSETP + 1
        /\ g.NPP1 = g.NSETP + 1
        /\ \A k \in 1..ArgN(t) :
             (k > g.IZ2) <=> IsFixed(Lower(t, g.INDEX[k]), Upper(t, g.INDEX[k]))

\* a call with a fixed unknown stands after a demotion with one unknown
\* left in P and one back in Z
C7_Witness ==
    /\ pc[1] = "fine_ciclo2"
    /\ g.NSETP = 1
    /\ g.IZ1 = 2
    /\ g.IZ2 < ArgN(1)
    /\ g.IZ1 <= g.IZ2

\* the calls thread 1 has finished, the current one included
Finished ==
    IF pc[1] \in {"done", "raised"}
    THEN Append(hist, [args |-> args[1], ret |-> ret[1]])
    ELSE hist

\* C8: two calls of one process with the same arguments end the same way
\* and return the same X.
C8_SameInputsSameResult ==
    \A i, k \in 1..Len(Finished) :
      Finished[i].args = Finished[k].args => Finished[i].ret = Finished[k].ret

\* C9: a call whose phases are interleaved with another thread's call ends
\* as it does when run alone.
C9_InterleavedCallsIndependent ==
    \A t \in Threads :
      pc[t] \in {"done", "raised"} => ret[t] = Alone(args[t])

\* the five outputs of a solve
Outputs == {"X", "RNORM", "NSETP", "W", "IERR"}

\* C10: the value a call returns holds X, the residual norm, the size of
\* set P, the dual vector and the status.
C10_FiveOutputsReturned ==
    \A t \in Threads : pc[t] = "done" => Outputs \subseteq DOMAIN ret[t].val

\* C11: when a call has returned, the caller's A array (args.A1) holds the
\* transformed matrix the solve worked on and the caller's B array
\* (args.B1) the transformed right-hand side, while the caller's bounds
\* array still holds the bounds the solve was given.
C11_CallerArraysTransformed ==
    \A t \in Threads :
      pc[t] = "done" =>
        /\ args[t].A1 = g.A
        /\ args[t].B1 = g.B
        /\ args[t].BND1 = g.BND

\* thread t passed the bounds as N rows <<lower, upper>>, one per unknown
RowsPerVariable(t) ==
    /\ Len(args[t].BND1) = ArgN(t)
    /\ \A k \in 1..Len(args[t].BND1) : Len(args[t].BND1[k]) = 2

Wanted(t, name, default) ==
    IF name \in DOMAIN args[t] THEN args[t][name] ELSE default

\* C13: the tolerance, the iteration cap and the norm mode a caller passes
\* are accepted and are the ones the solve uses; a call that passes none
\* runs with EPS = machine epsilon, ITMAX = 3*N and the safe norm.
C13_OptionsSelectable ==
    \A t \in Threads :
      /\ pc[t] = "raised" => ret[t].exc # "TypeError"
      /\ pc[t] \in Between =>
           /\ g.EPS = Wanted(t, "EPS1", EPSDEFAULT)
           /\ g.ITMAX = Wanted(t, "ITMAX1", 3 * ArgN(t))
           /\ g.FASTNORM = Wanted(t, "FASTNORM1", FALSE)

\* the outcome C14 names: returned X = [5, 0], unknown 1 alone in set P,
\* unknown 2 in set Z at 0 with a negative dual, residual norm 3, IERR = 0
DegenerateOutcome(t) ==
    /\ ret[t].exc = "none"
    /\ ret[t].val.X = RSeq(<<5, 0>>)
    /\ g.NSETP = 1 /\ g.INDEX[1] = 1
    /\ g.IZ1 = 2 /\ g.IZ2 = 2 /\ g.INDEX[2] = 2
    /\ g.X[2] = ZERO /\ RLt(g.W[2], ZERO)
    /\ g.RNORM = R(3)
    /\ g.IERR = 0

RMin(x, y) == IF RLt(y, x) THEN y ELSE x

RMax(x, y) == IF RGt(y, x) THEN y ELSE x

\* the point of the interval [lo, up] closest to 0, by the four cases of
\* which bounds are finite
ClosestToZero(lo, up) ==
    IF RLe(lo, RNeg(FMAX))
    THEN IF RGe(up, FMAX) THEN ZERO ELSE RMin(ZERO, up)
    ELSE IF RGe(up, FMAX) THEN RMax(ZERO, lo)
    ELSE RMax(lo, RMin(up, ZERO))

\* C15: right after INITIALIZE every unknown that is not fixed has X(j) = 0
\* when both bounds are infinite, min(0, upper) when only the upper bound
\* is finite, max(0, lower) when only the lower bound is finite, and
\* max(lower, min(upper, 0)) when both are finite.
C15_InitialXClosestToZero ==
    \A t \in Threads :
      pc[t] = "LOOP" /\ g.ITER = 0 /\ g.IERR = 0 =>
        \A k \in 1..g.IZ2 :
          g.X[g.INDEX[k]] = ClosestToZero(Lower(t, g.INDEX[k]), Upper(t, g.INDEX[k]))

\* thread t takes the step that runs SELECT_ANOTHER_COEFF_TO_SOLVE_FOR
SelectStep(t) == pc[t] = "LOOP" /\ ~LoopExit(g) /\ pc'[t] \in {"MOVE_J", "fine"}

\* the positions of INDEX that the selection loop of this step visited
Scanned == g.IZ1..(IF g'.FIND THEN g'.IZ ELSE g.IZ2)

\* the candidate at position k was not free: X(J) is not strictly inside
\* its interval
NotFree(k) ==
    ~(/\ RGt(g.X[g.INDEX[k]], g.BND[1][g.INDEX[k]])
      /\ RLt(g.X[g.INDEX[k]], g.BND[2][g.INDEX[k]]))

\* the candidate at position k was handed to the diagonal/direction test:
\* it was selected, or it was rejected and the test cleared its W(J)
\* (a candidate that is skipped keeps its dual coefficient in W(J))
Tested(k) ==
    /\ Dual(g, g.INDEX[k]) # ZERO
    /\ \/ g'.FIND /\ g'.IZ = k
       \/ g'.W[g.INDEX[k]] = ZERO

\* C16 as stated: in a selection, a candidate that is not free and rests
\* on its lower bound is tested only if its dual coefficient is negative,
\* one that rests on its upper bound only if it is positive.
C16_TestedAwayFromBoundAsStated ==
    [][\A t \in Threads :
         SelectStep(t) =>
           \A k \in Scanned :
             NotFree(k) /\ Tested(k) =>
               /\ g.X[g.INDEX[k]] = g.BND[1][g.INDEX[k]] => RLt(Dual(g, g.INDEX[k]), ZERO)
               /\ g.X[g.INDEX[k]] = g.BND[2][g.INDEX[k]] => RGt(Dual(g, g.INDEX[k]), ZERO)]_vars

\* C16 amended: in a selection, a candidate that is not free and rests on
\* its lower bound is tested only if its dual coefficient W(J) is
\* positive, one that rests on its upper bound only if W(J) is negative;
\* with any other sign it is skipped and keeps W(J).
C16_TestedAwayFromBound ==
    [][\A t \in Threads :
         SelectStep(t) =>
           \A k \in Scanned :
             NotFree(k) /\ Tested(k) =>
               /\ g.X[g.INDEX[k]] = g.BND[1][g.INDEX[k]] => RGt(Dual(g, g.INDEX[k]), ZERO)
               /\ g.X[g.INDEX[k]] = g.BND[2][g.INDEX[k]] => RLt(Dual(g, g.INDEX[k]), ZERO)]_vars

\* a selection skipped a first candidate on its lower bound with a
\* negative dual and selected a second one on its lower bound with a
\* positive dual
C16_Witness ==
    /\ pc[1] = "MOVE_J"
    /\ g.NSETP = 0
    /\ g.IZ = 2
    /\ ~g.FREE
    /\ g.X[g.J] = Lower(1, g.J) /\ RGt(g.W[g.J], ZERO)
    /\ g.X[g.INDEX[1]] = Lower(1, g.INDEX[1]) /\ RLt(g.W[g.INDEX[1]], ZERO)

\* x lies strictly inside thread t's interval for unknown j
StrictlyWithin(t, j, x) == RLt(Lower(t, j), x) /\ RLt(x, Upper(t, j))

\* C17: when TEST_SET_P_AGAINST_CONSTRAINTS ends with IERR = 0, the scratch
\* values Z(1..NSETP) it is about to copy (label fine_LOOPB) and, after the
\* copy, the X(j) of every j in set P lie strictly between lower_j and
\* upper_j.
C17_SetPStrictlyFeasible ==
    \A t \in Threads :
      /\ pc[t] = "fine_LOOPB" /\ g.IERR = 0 =>
           \A k \in 1..g.NSETP : StrictlyWithin(t, g.INDEX[k], g.Z[k])
      /\ pc[t] = "LOOP" /\ g.IERR = 0 =>
           \A k \in 1..g.NSETP : StrictlyWithin(t, g.INDEX[k], g.X[g.INDEX[k]])

\* C18: whenever the feasibility check has reported a bound hit (HITBND is
\* true and the call goes on to the partial step and the demotion), the
\* step fraction ALPHA satisfies 0 < ALPHA <= 1.
C18_StepFractionInUnitInterval ==
    \A t \in Threads :
      pc[t] = "MOVE_COEF" /\ g.HITBND =>
        RGt(g.ALPHA, ZERO) /\ RLe(g.ALPHA, ONE)

\* the unknowns that globals gg hold in set Z or set F
InZF(gg) == {gg.INDEX[k] : k \in gg.IZ1..gg.N}

\* the unknowns that globals gg hold in set Z
InZ(gg) == {gg.INDEX[k] : k \in gg.IZ1..gg.IZ2}

\* the finite bounds of unknown j of thread t's call
BoundValues(t, j) ==
    {b \in {Lower(t, j), Upper(t, j)} : RGt(b, RNeg(FMAX)) /\ RLt(b, FMAX)}

\* C19: after every step of a solve, each unknown in Z or F has X(j)
\* within [lower_j, upper_j] and each unknown in Z that has a finite bound
\* has X(j) equal to one of its bound values; and a step that leaves j in
\* Z or F leaves X(j) unchanged.
C19_SetZStaysOnBounds ==
    [][\A t \in Threads :
         pc'[t] \in Between =>
           /\ \A j \in InZF(g') : Within(t, j, g'.X[j])
           /\ \A j \in InZ(g') :
                BoundValues(t, j) # {} => g'.X[j] \in BoundValues(t, j)
           /\ pc[t] \in Between =>
                \A j \in InZF(g) \cap InZF(g') : g'.X[j] = g.X[j]]_vars

\* C20: every call ends (returns or raises); on the way ITER goes up by
\* one at each pass of the feasibility loop and is otherwise left alone,
\* a pass starts only with IERR = 0 and ITER <= ITMAX (so ITER never
\* exceeds ITMAX + 1), every promotion is followed by a pass, and every
\* demotion lowers NSETP by one, going on to another demotion only while
\* NSETP > 0.
C20_SolveTerminates ==
    /\ \A t \in Threads : pc[t] = "BVLS" ~> pc[t] \in {"done", "raised"}
    /\ [](\A t \in Threads :
            /\ pc[t] \in Between => g.ITER <= g.ITMAX + 1
            /\ pc[t] = "LOOPB" => g.IERR = 0 /\ g.ITER <= g.ITMAX)
    /\ [][\A t \in Threads :
            /\ pc[t] = "LOOPB" => g'.ITER = g.ITER + 1
            /\ pc[t] \in Between \ {"LOOPB"} => g'.ITER = g.ITER
            /\ pc[t] = "MOVE_J" => pc'[t] \in {"LOOPB", "raised"}
            /\ pc[t] = "MOVE_COEF" =>
                 /\ g'.NSETP = g.NSETP - 1
                 /\ pc'[t] = "MOVE_COEF" => g'.NSETP > 0]_vars

\* a call has returned after the pass that exceeded the cap: ITER =
\* ITMAX + 1 and IERR = 4
C20_Witness ==
    /\ pc[1] = "done"
    /\ g.IERR = 4
    /\ g.ITER = g.ITMAX + 1
    /\ g.ITMAX = 3 * ArgN(1)

\* the body of the selection loop run for the candidate at position k alone
Tried(gg, k) ==
    SelectOne([gg EXCEPT !.FIND = FALSE, !.IZ = k, !.J = gg.INDEX[k]],
              gg.INDEX[k],
              RGt(gg.X[gg.INDEX[k]], gg.BND[1][gg.INDEX[k]]),
              RLt(gg.X[gg.INDEX[k]], gg.BND[2][gg.INDEX[k]]))

\* the candidate at position k is eligible and passes the
\* diagonal/direction test
Passes(gg, k) == Tried(gg, k).FIND

\* the first position of set Z, in scan order, whose candidate passes
FirstFit(gg) ==
    CHOOSE k \in gg.IZ1..gg.IZ2 :
      Passes(gg, k) /\ \A i \in gg.IZ1..(k - 1) : ~Passes(gg, i)

\* the selection left the candidate at position k alone: its dual entry
\* and its column are as before
Untouched(k) ==
    /\ g'.W[g.INDEX[k]] = g.W[g.INDEX[k]]
    /\ \A i \in 1..g.M : g'.A[i][g.INDEX[k]] = g.A[i][g.INDEX[k]]

\* C21: candidate selection is first-fit in scan order: the variable a
\* selection promotes is the first one over positions IZ1..IZ2 that is
\* eligible and passes the diagonal/direction test, and the candidates
\* after it keep their dual entry and their column; when no candidate
\* passes, none is promoted.
C21_FirstFitSelection ==
    [][\A t \in Threads :
         SelectStep(t) =>
           IF \E k \in g.IZ1..g.IZ2 : Passes(g, k)
           THEN /\ g'.FIND
                /\ pc'[t] = "MOVE_J"
                /\ g'.IZ = FirstFit(g)
                /\ g'.J = g.INDEX[FirstFit(g)]
                /\ \A k \in (FirstFit(g) + 1)..g.IZ2 : Untouched(k)
           ELSE ~g'.FIND /\ pc'[t] = "fine"]_vars

\* a selection took the first candidate of a scan whose second candidate
\* passes the test too
C21_Witness ==
    /\ pc[1] = "MOVE_J"
    /\ g.NSETP = 0
    /\ g.IZ = 1
    /\ g.IZ2 >= 2
    /\ Passes(g, 2)

\* whether the candidate at position k is free
IsFree(gg, k) ==
    /\ RGt(gg.X[gg.INDEX[k]], gg.BND[1][gg.INDEX[k]])
    /\ RLt(gg.X[gg.INDEX[k]], gg.BND[2][gg.INDEX[k]])

\* the state in which the selection loop reaches the candidate at position
\* k: IZ, J and FREE are set, and W(J) for a candidate that is not free
PreTest(gg, k) ==
    [gg EXCEPT !.FIND = FALSE, !.IZ = k, !.J = gg.INDEX[k],
               !.FREE = IsFree(gg, k),
               !.W[gg.INDEX[k]] = IF IsFree(gg, k) THEN @ ELSE Dual(gg, gg.INDEX[k])]

\* the state in which the diagonal/direction test leaves that candidate
PostTest(gg, k) == TEST_COEF_J_FOR_DIAG_ELT_AND_DIRECTION_OF_CHANGE(PreTest(gg, k))

\* the candidate at position k is handed to the test, which rejects it
Rejected(gg, k) ==
    /\ \/ IsFree(gg, k)
       \/ Eligible(Dual(gg, gg.INDEX[k]), RGt(gg.X[gg.INDEX[k]], gg.BND[1][gg.INDEX[k]]),
                   RLt(gg.X[gg.INDEX[k]], gg.BND[2][gg.INDEX[k]]))
    /\ ~PostTest(gg, k).FIND

\* state g1 is state g0 but for the scratch vector Z and W(j) = 0
Restored(g0, g1, j) ==
    /\ g1.A = g0.A
    /\ g1.B = g0.B
    /\ g1.X = g0.X
    /\ g1.INDEX = g0.INDEX
    /\ g1.NSETP = g0.NSETP
    /\ g1.NPP1 = g0.NPP1
    /\ g1.IZ1 = g0.IZ1
    /\ g1.IZ2 = g0.IZ2
    /\ g1.W = [g0.W EXCEPT ![j] = ZERO]

\* C22: when the diagonal/direction test rejects candidate j, A (the entry
\* A(NPP1,j) included), B, X, INDEX, NSETP, IZ1 and IZ2 are as before the
\* test and W(j) is 0; a selection changes B, X, INDEX, NSETP, IZ1 and IZ2
\* not at all, and A only in the entry A(NPP1,J) of the candidate it
\* accepts.
C22_RejectionRestoresState ==
    [][\A t \in Threads :
         SelectStep(t) =>
           /\ \A k \in Scanned :
                Rejected(g, k) =>
                  /\ Restored(PreTest(g, k), PostTest(g, k), g.INDEX[k])
                  /\ g'.W[g.INDEX[k]] = ZERO
                  /\ \A i \in 1..g.M : g'.A[i][g.INDEX[k]] = g.A[i][g.INDEX[k]]
           /\ g'.B = g.B /\ g'.X = g.X /\ g'.INDEX = g.INDEX
           /\ g'.NSETP = g.NSETP /\ g'.IZ1 = g.IZ1 /\ g'.IZ2 = g.IZ2
           /\ \A i \in 1..g.M : \A j \in 1..g.N :
                g'.A[i][j] # g.A[i][j] => g'.FIND /\ i = g.NPP1 /\ j = g'.J]_vars

\* a selection ended with no candidate accepted after the test rejected
\* one that rests on a bound, with a nonzero dual coefficient and a nonzero
\* entry A(NPP1,J)
C22_Witness ==
    /\ pc[1] = "fine"
    /\ ~LoopExit(g)
    /\ ~g.FIND
    /\ \E k \in g.IZ1..g.IZ2 :
         /\ Rejected(g, k)
         /\ ~IsFree(g, k)
         /\ Dual(g, g.INDEX[k]) # ZERO
         /\ g.A[g.NPP1][g.INDEX[k]] # ZERO
         /\ g.W[g.INDEX[k]] = ZERO

\* the unknowns of thread t's call that are not held at a single value
NonFixed(t) == {j \in 1..ArgN(t) : ~EqualBounds(t, j)}

\* the size of set P is between 0 and min(M, number of non-fixed unknowns)
SizeOfPInRange(t, gg) ==
    /\ 0 <= gg.NSETP
    /\ gg.NSETP <= gg.M
    /\ gg.NSETP <= Cardinality(NonFixed(t))

\* C23: the main loop promotes a variable only while IERR = 0, set Z is
\* not empty (IZ1 <= IZ2) and NSETP < M; 0 <= NSETP <= min(M, number of
\* non-fixed unknowns) throughout a call; with an error flag set the loop
\* is left at once and nothing is selected; otherwise it stops when Z is
\* empty, NSETP = M, or no candidate passes the test, and then IERR = 0
\* (leaving the loop does not change IERR).
C23_PromotionGuardsAndSuccess ==
    [][\A t \in Threads :
         /\ pc[t] = "MOVE_J" /\ pc'[t] # "MOVE_J" =>
              g.IERR = 0 /\ g.IZ1 <= g.IZ2 /\ g.NSETP < g.M
         /\ pc[t] \in Between => SizeOfPInRange(t, g)
         /\ pc'[t] \in Between => SizeOfPInRange(t, g')
         /\ pc[t] = "LOOP" /\ g.IERR # 0 => pc'[t] = "fine" /\ g' = g
         /\ pc[t] = "LOOP" /\ g.IERR = 0 /\ (g.IZ1 > g.IZ2 \/ g.NSETP >= g.M) =>
              pc'[t] = "fine"
         /\ pc[t] = "LOOP" /\ pc'[t] = "fine" =>
              /\ g'.IERR = g.IERR
              /\ g.IERR = 0 =>
                   \/ g.IZ1 > g.IZ2
                   \/ g.NSETP >= g.M
                   \/ \A k \in g.IZ1..g.IZ2 : ~Passes(g, k)]_vars

\* the loop stopped with every non-fixed unknown in set P and IERR = 0
C23_Witness ==
    /\ pc[1] = "fine"
    /\ g.IERR = 0
    /\ g.NSETP = g.M
    /\ g.IZ1 > g.IZ2
    /\ g.NSETP = Cardinality(NonFixed(1))

\* C24: MOVE_COEF_I_FROM_SET_P_TO_SET_Z, called for unknown I at position
\* JJ of set P, sets X(I) to the bound BND(IBOUND,I), removes I from P while
\* the other members of P keep their order, puts I at the first position of
\* set Z, lowers NSETP, NPP1 and IZ1 by one each, and leaves IZ2, the rest
\* of set Z and set F as they were.
C24_DemotionMovesIToZ ==
    [][\A t \in Threads :
         pc[t] = "MOVE_COEF" =>
           /\ g.JJ \in 1..g.NSETP
           /\ g.INDEX[g.JJ] = g.I
           /\ g.IBOUND \in {1, 2}
           /\ g'.X[g.I] = g.BND[g.IBOUND][g.I]
           /\ \A k \in 1..(g.JJ - 1) : g'.INDEX[k] = g.INDEX[k]
           /\ \A k \in g.JJ..(g.NSETP - 1) : g'.INDEX[k] = g.INDEX[k + 1]
           /\ g'.INDEX[g'.IZ1] = g.I
           /\ g'.NSETP = g.NSETP - 1
           /\ g'.NPP1 = g.NPP1 - 1
           /\ g'.IZ1 = g.IZ1 - 1
           /\ g'.IZ1 = g'.NSETP + 1
           /\ g'.IZ2 = g.IZ2
           /\ \A k \in g.IZ1..g.N : g'.INDEX[k] = g.INDEX[k]]_vars

\* the first of two members of set P was moved to set Z at its lower
\* bound 0, and the second took its place
C24_Witness ==
    /\ pc[1] = "fine_ciclo2"
    /\ args[1].A1 = <<RSeq(<<0, 3>>), RSeq(<<1, 4>>)>>
    /\ args[1].B1 = RSeq(<<5, 5>>)
    /\ args[1].BND1 = <<RSeq(<<0, -FMAXN>>), RSeq(<<FMAXN, FMAXN>>)>>
    /\ g.ITER = 2
    /\ g.NSETP = 1
    /\ g.NPP1 = 2
    /\ g.IZ1 = 2
    /\ g.INDEX = <<2, 1>>
    /\ g.X[1] = ZERO

\* the largest magnitude among the elements of s
MaxAbs(s) ==
    CHOOSE x \in {RAbs(s[k]) : k \in 1..Len(s)} : \A k \in 1..Len(s) : RLe(RAbs(s[k]), x)

\* the Euclidean norm sqrt(s . s) of s, taken as max|s| * sqrt(sum of
\* (s(k) / max|s|)^2) so that the squares stay in range
Euclidean(s) ==
    IF Len(s) = 0 THEN ZERO
    ELSE IF MaxAbs(s) = ZERO THEN ZERO
    ELSE RMul(MaxAbs(s),
              RSqrt(SumSeq([k \in 1..Len(s) |->
                              RMul(RDiv(s[k], MaxAbs(s)), RDiv(s[k], MaxAbs(s)))])))

\* C25: the main loop is left only for label fine, from where
\* TERMINATION runs before the call returns, whatever IERR is: it sets
\* RNORM to the Euclidean norm of rows NSETP+1..M of B; when NSETP = M
\* there is no such row, RNORM is 0 and W is set to 0 throughout;
\* otherwise W is left as it is, and so is everything else.
C25_ResidualNormAtTermination ==
    [][\A t \in Threads :
         /\ pc[t] = "LOOP" => pc'[t] \in {"MOVE_J", "fine"}
         /\ pc'[t] = "return" => pc[t] = "fine"
         /\ pc[t] = "fine" =>
              /\ pc'[t] = "return"
              /\ g'.RNORM = Euclidean(Slice(g.B, g.NSETP + 1, g.M))
              /\ g.NSETP >= g.M =>
                   g'.RNORM = ZERO /\ g'.W = [j \in 1..g.N |-> ZERO]
              /\ g.NSETP < g.M => g'.W = g.W
              /\ g' = [g EXCEPT !.RNORM = g'.RNORM, !.W = g'.W]]_vars

\* a call that hit the iteration cap ended with the norm of the one row
\* below the triangular block
C25_Witness ==
    /\ pc[1] = "done"
    /\ g.IERR = 4
    /\ g.NSETP = 1
    /\ g.M = 2
    /\ g.RNORM = RAbs(g.B[2])
    /\ g.RNORM # ZERO

\* C26: in the first call of a fresh process no phase reads a module
\* global that the call has not assigned, so the call does not end in a
\* NameError; in particular JZ = JZ + 1 after the loop over JZ = IZ1..IZ2
\* of MOVE_J_FROM_SET_Z_TO_SET_P finds JZ bound, also when the promoted
\* unknown was the only member of set Z and the loop is empty.
C26_FirstCallReadsOnlyAssigned ==
    \A t \in Threads :
      Len(hist) = 0 =>
        /\ ret[t].exc # "NameError"
        /\ pc[t] = "LOOPB" => JZBound(g)

====
